---- MODULE Spec2Model ----
(***************************************************************************)
(* The GitHub commit extractor: the Index page (repository listing,        *)
(* paginated commit extraction), the CommitFilter component, and the       *)
(* EnhancedCommitExporter component (per-commit formatter and report       *)
(* builder).                                                               *)
(*                                                                         *)
(* Conventions.  A JavaScript value that may be absent (null, undefined,   *)
(* "") is a sequence of length 0 or 1.  A Date is its getTime() value, in  *)
(* milliseconds from local midnight of 2024-01-01.  A string the code      *)
(* takes apart is a sequence of the parts the code can tell apart: a       *)
(* commit message is the sequence of its lines, a hash is the pair of its  *)
(* first eight characters and the rest.                                    *)
(***************************************************************************)
EXTENDS Integers, Sequences, FiniteSets, TLC

VARIABLES
    \* --- Index page state (src/src/pages/Index.tsx:15-27)
    username, repositories, selectedRepo, dateRange, commits, filteredCommits,
    tokenCount, loading, loadingRepos, detailLevel, selectedRepos,
    \* --- DateRangePicker component state (src/unnamed/part_001:14)
    pickerRange,
    \* --- the running fetchRepositories call, and the notices the last call
    \*     raised
    reposReq, repoNotices,
    \* --- the running fetchCommits call, and what it did: the requests it
    \*     issued (their number and, in order, their parameters), the sizes of
    \*     the pages it received, the notices it raised
    ext, calls, requests, served, extNotices,
    \* --- CommitFilter component state (src/unnamed/part_002:23-25)
    cfSelectedRepos, cfDetailLevel, cfTokenCount, cfApplied,
    \* --- EnhancedCommitExporter component state (src/unnamed/part_000:29)
    exportedText,
    \* --- one call of formatCommitByDetailLevel: its arguments and results
    fmtCommit, fmtIndex, fmtBlocks,
    \* --- Index page state set by handleAuthChange (src/src/pages/Index.tsx:15-16)
    user, profile,
    \* --- AuthButton component state (src/src/components/AuthButton.tsx:21-22),
    \*     its profile lookups in flight, and whether getSession has answered
    auUser, auProfile, auLookups, auSession,
    \* --- the auth service: the session it holds
    session

inputVars  == <<username, selectedRepo, dateRange, pickerRange>>
listVars   == <<repositories, loadingRepos, reposReq, repoNotices>>
resultVars == <<commits, filteredCommits, tokenCount, loading>>
\* Index state that no handler sets: setDetailLevel and setSelectedRepos are
\* never called.
propVars   == <<detailLevel, selectedRepos>>
pageVars   == <<inputVars, listVars, resultVars, propVars>>
extVars    == <<ext, calls, requests, served, extNotices>>
filterVars == <<cfSelectedRepos, cfDetailLevel, cfTokenCount, cfApplied>>
fmtVars    == <<fmtCommit, fmtIndex, fmtBlocks>>
authVars   == <<user, profile, auUser, auProfile, auLookups, auSession, session>>
vars       == <<pageVars, extVars, filterVars, exportedText, fmtVars, authVars>>

None    == <<>>
Some(x) == <<x>>

-----------------------------------------------------------------------------
(* Dates and date-fns format                                               *)

MsPerMinute == 1000 * 60
MsPerHour   == 1000 * 60 * 60
\* (1000 * 60 * 60 * 24) of the time-span computation
MsPerDay    == 1000 * 60 * 60 * 24

\* date-fns format(date, pattern): the calendar fields the pattern prints.
format(date, pattern) ==
    LET day    == date \div MsPerDay
        hour   == (date % MsPerDay) \div MsPerHour
        minute == (date % MsPerHour) \div MsPerMinute
        second == (date % MsPerMinute) \div 1000
    IN  CASE pattern = "yyyy-MM-dd"          -> <<day>>
          [] pattern = "MMM dd, yyyy"        -> <<day>>
          [] pattern = "yyyy-MM-dd HH:mm"    -> <<day, hour, minute>>
          [] pattern = "yyyy-MM-dd HH:mm:ss" -> <<day, hour, minute, second>>

-----------------------------------------------------------------------------
(* Commit records, as the remote API returns them and fetchCommits tags    *)
(* them.                                                                   *)

\* One commit object of the API, before tagging.
ApiCommit(sha, name, email, date, message, stats, files) ==
    [sha      |-> sha,
     commit   |-> [author  |-> [name |-> name, email |-> email, date |-> date],
                   message |-> message],
     html_url |-> <<"https://github.com/commit", sha>>,
     stats    |-> stats,
     files    |-> files]

\* { ...commit, repository: { name: selectedRepo } }
WithRepo(commit, repo) ==
    [sha        |-> commit.sha,
     commit     |-> commit.commit,
     html_url   |-> commit.html_url,
     stats      |-> commit.stats,
     files      |-> commit.files,
     repository |-> Some([name |-> repo])]

\* sha.substring(0, 8)
ShortSha(sha) == sha[1]

\* A line that is only whitespace: what String.prototype.trim removes.
IsBlank(line) == line \in {"", " "}

RECURSIVE TrimStart(_)
TrimStart(lines) ==
    IF lines = <<>> THEN <<>>
    ELSE IF IsBlank(Head(lines)) THEN TrimStart(Tail(lines))
    ELSE lines

RECURSIVE TrimEnd(_)
TrimEnd(lines) ==
    IF lines = <<>> THEN <<>>
    ELSE IF IsBlank(lines[Len(lines)]) THEN TrimEnd(SubSeq(lines, 1, Len(lines) - 1))
    ELSE lines

\* message.split('\n')[0]
MessageTitle(message) == message[1]

\* message.split('\n').slice(1).join('\n').trim(); "" is <<>>
MessageBody(message) == TrimEnd(TrimStart(Tail(message)))

\* commit.repository?.name || 'Unknown'
RepoNameOr(commit, fallback) ==
    IF commit.repository = None THEN fallback
    ELSE IF commit.repository[1].name = "" THEN fallback
    ELSE commit.repository[1].name

-----------------------------------------------------------------------------
(* formatCommitByDetailLevel: the rendered block is the record of what the *)
(* template of the level prints, under the label it prints it with.  An    *)
(* optional line the template leaves out is <<>>.                          *)

\* case 1: `${index}. ${sha8} - ${title}\n`
BlockMinimal(commit, index) ==
    [layout |-> "minimal", index |-> index,
     sha    |-> <<ShortSha(commit.sha)>>,
     title  |-> MessageTitle(commit.commit.message)]

\* case 2
BlockBasic(commit, index) ==
    [layout |-> "basic", index |-> index,
     title  |-> MessageTitle(commit.commit.message),
     sha    |-> <<ShortSha(commit.sha)>>,
     author |-> commit.commit.author.name,
     date   |-> format(commit.commit.author.date, "MMM dd, yyyy")]

\* case 3
BlockStandard(commit, index) ==
    [layout  |-> "standard", index |-> index,
     title   |-> MessageTitle(commit.commit.message),
     sha     |-> <<ShortSha(commit.sha)>>,
     date    |-> format(commit.commit.author.date, "yyyy-MM-dd HH:mm"),
     author  |-> commit.commit.author.name,
     details |-> MessageBody(commit.commit.message)]

\* Faulty variant: the detailed template leaves the author line out.
BlockDetailedNoAuthor(commit, index) ==
    [layout      |-> "detailed", index |-> index,
     title       |-> MessageTitle(commit.commit.message),
     sha         |-> <<ShortSha(commit.sha)>>,
     date        |-> format(commit.commit.author.date, "yyyy-MM-dd HH:mm:ss"),
     email       |-> commit.commit.author.email,
     repository  |-> RepoNameOr(commit, "Unknown"),
     description |-> MessageBody(commit.commit.message),
     url         |-> commit.html_url]

\* case 4
BlockDetailed(commit, index) ==
    [layout      |-> "detailed", index |-> index,
     title       |-> MessageTitle(commit.commit.message),
     sha         |-> <<ShortSha(commit.sha)>>,
     date        |-> format(commit.commit.author.date, "yyyy-MM-dd HH:mm:ss"),
     author      |-> commit.commit.author.name,
     email       |-> commit.commit.author.email,
     repository  |-> RepoNameOr(commit, "Unknown"),
     description |-> MessageBody(commit.commit.message),
     url         |-> commit.html_url]

\* `+${stats.additions || 0} -${stats.deletions || 0}` or 'N/A'
StatsText(commit) ==
    IF commit.stats = None THEN <<"N/A">>
    ELSE <<"+", commit.stats[1].additions, "-", commit.stats[1].deletions>>

\* commit.files ? commit.files.length : 'N/A'
FilesText(commit) ==
    IF commit.files = None THEN <<"N/A">>
    ELSE <<"count", Len(commit.files[1])>>

\* case 5
BlockMaximum(commit, index) ==
    [layout      |-> "maximum", index |-> index,
     title       |-> MessageTitle(commit.commit.message),
     sha         |-> commit.sha,
     date        |-> format(commit.commit.author.date, "yyyy-MM-dd HH:mm:ss"),
     author      |-> commit.commit.author.name,
     email       |-> commit.commit.author.email,
     repository  |-> RepoNameOr(commit, "Unknown"),
     description |-> MessageBody(commit.commit.message),
     stats       |-> StatsText(commit),
     files       |-> FilesText(commit),
     url         |-> commit.html_url]

\* Faulty variant: the default case falls back to the basic level.
FallbackLevelBasic == 3 - 1

\* default: return formatCommitByDetailLevel(commit, index, 3)
FallbackLevel == 3

\* The switch; steps counts the calls of formatCommitByDetailLevel made.
RECURSIVE formatCommitTrace(_, _, _)
formatCommitTrace(commit, index, level) ==
    CASE level = 1 -> [steps |-> 1, block |-> BlockMinimal(commit, index)]
      [] level = 2 -> [steps |-> 1, block |-> BlockBasic(commit, index)]
      [] level = 3 -> [steps |-> 1, block |-> BlockStandard(commit, index)]
      [] level = 4 -> [steps |-> 1, block |-> BlockDetailed(commit, index)]
      [] level = 5 -> [steps |-> 1, block |-> BlockMaximum(commit, index)]
      [] OTHER ->
           LET r == formatCommitTrace(commit, index, FallbackLevel)
           IN  [steps |-> r.steps + 1, block |-> r.block]

formatCommitByDetailLevel(commit, index, level) ==
    formatCommitTrace(commit, index, level).block

-----------------------------------------------------------------------------
(* The remote API (an external collaborator): what it can answer.          *)

\* const perPage = 100
perPage == 100

\* The longest extraction explored: a full page is answered only before
\* this page.
MaxPages == 3

\* The last day a date range can name.
MaxDay == 2

Usernames == {"", "alice", "bob"}

\* GET /users/{username}/repos
RemoteRepos(owner) ==
    CASE owner = "alice" -> <<[name |-> "api"], [name |-> "web"]>>
      [] owner = "bob"   -> <<[name |-> "cli"]>>
      [] OTHER           -> <<>>

KnownOwner(owner) == owner \in {"alice", "bob"}

PageAuthors == <<"Ann", "Bob", "7">>

\* The i-th commit of page p of a commit listing.
RemoteCommit(p, i) ==
    ApiCommit(<<<<p, i>>, "rest">>,
              PageAuthors[(i % 3) + 1], "dev@example.com",
              i * MsPerMinute,
              IF i % 2 = 0 THEN <<"title">> ELSE <<"title", "", "body">>,
              None, None)

\* GET /repos/{owner}/{repo}/commits?page=p&per_page=100 answering n commits
RemotePage(p, n) == [i \in 1..n |-> RemoteCommit(p, i)]

\* The sizes a page can have; a full page is capped by MaxPages.
PageSizes(p) == IF p < MaxPages THEN {0, 37, perPage} ELSE {0, 37}

\* The ranges the calendar can hand to handleDateSelect: from <= to, both
\* at local midnight, or from alone.
DayRanges ==
    UNION {{[from |-> Some(f * MsPerDay), to |-> Some(t * MsPerDay)] :
               t \in f..MaxDay} : f \in 0..MaxDay} \cup
    {[from |-> Some(f * MsPerDay), to |-> None] : f \in 0..MaxDay}

-----------------------------------------------------------------------------
(* Component mounting.  CommitFilter is rendered while commits.length > 0  *)
(* and EnhancedCommitExporter while filteredCommits.length > 0; a          *)
(* component that is not rendered has no state, and starts from its        *)
(* useState initial values when it is rendered again.                      *)

FilterInitial ==
    /\ cfSelectedRepos = <<>>
    /\ cfDetailLevel = <<3>>
    /\ cfTokenCount = 0
    /\ cfApplied = None

ExporterInitial == exportedText = None

\* What a render does to CommitFilter when the page's commits become cs.
RenderFilter(cs) ==
    IF cs = <<>>
    THEN /\ cfSelectedRepos' = <<>>
         /\ cfDetailLevel' = <<3>>
         /\ cfTokenCount' = 0
         /\ cfApplied' = None
    ELSE UNCHANGED filterVars

\* Faulty variant: the exporter is mounted afresh on every change of the list.
RenderExporterRemounts(fs) == exportedText' = None

\* What a render does to the exporter when filteredCommits become fs.
RenderExporter(fs) ==
    IF fs = <<>> THEN exportedText' = None ELSE UNCHANGED exportedText

-----------------------------------------------------------------------------
(* Authentication: what Index keeps of it                                  *)

\* The accounts of the auth service.
Users == {"u1", "u2"}

\* The row of table profiles for a user: u1 has one, with a GitHub
\* username; u2 has none (the lookup answers error PGRST116 and no data).
ProfileRow(userId) ==
    IF userId = "u1"
    THEN Some([id |-> "p1", github_username |-> Some("alice")])
    ELSE None

\* AuthButton as mounted, with getSession on its way, and Index before any
\* handleAuthChange.
AuthInitial ==
    /\ user = None
    /\ profile = None
    /\ auUser = None
    /\ auProfile = None
    /\ auLookups = <<>>
    /\ auSession = "pending"
    /\ session = None

\* currentProfile?.github_username, when it is set
HasGithubUsername(p) == p # None /\ p[1].github_username # None

\* {(!user || !profile?.github_username) && ( <Card> username Input, Load
\* Repos </Card> )}
UsernameCardShown == user = None \/ ~HasGithubUsername(profile)

\* The username after handleAuthChange(currentUser, currentProfile) on a
\* page whose username is u.
InheritedUsername(u, currentProfile) ==
    IF HasGithubUsername(currentProfile)
    THEN currentProfile[1].github_username[1]
    ELSE u

-----------------------------------------------------------------------------
(* Index page: user input                                                  *)

\* <Input onChange={(e) => setUsername(e.target.value)} />, in the username
\* card.  The render gives AuthButton a new onAuthChange, so its effect
\* calls handleAuthChange(user, profile) again.
SetUsername(u) ==
    /\ UsernameCardShown
    /\ username # u
    /\ username' = InheritedUsername(u, auProfile)
    /\ UNCHANGED <<selectedRepo, dateRange, pickerRange>>
    /\ UNCHANGED <<listVars, resultVars, propVars, extVars, filterVars,
                   exportedText, fmtVars, authVars>>

\* <Select value={selectedRepo} onValueChange={setSelectedRepo}>, rendered
\* while repositories.length > 0, one item per repository.
SelectRepo(i) ==
    /\ i \in 1..Len(repositories)
    /\ selectedRepo # repositories[i].name
    /\ selectedRepo' = repositories[i].name
    /\ UNCHANGED <<username, dateRange, pickerRange>>
    /\ UNCHANGED <<listVars, resultVars, propVars, extVars, filterVars,
                   exportedText, fmtVars, authVars>>

\* const newRange: { from, to } when both are picked, { from, from } when
\* only from is.
NewRange(range) ==
    IF range.to # None
    THEN [from |-> range.from[1], to |-> range.to[1]]
    ELSE [from |-> range.from[1], to |-> range.from[1]]

\* Faulty variant: picking the selected range again clears the selection.
handleDateSelectClears(range) ==
    /\ selectedRepo # ""
    /\ range.from # None
    /\ IF dateRange = Some(NewRange(range))
       THEN pickerRange' = None /\ dateRange' = None
       ELSE /\ pickerRange' = Some(NewRange(range))
            /\ dateRange' = Some(NewRange(range))
    /\ UNCHANGED <<username, selectedRepo>>
    /\ UNCHANGED <<listVars, resultVars, propVars, extVars, filterVars,
                   exportedText, fmtVars, authVars>>

\* DateRangePicker.handleDateSelect, rendered while selectedRepo is set.
handleDateSelect(range) ==
    /\ selectedRepo # ""
    /\ range.from # None
    /\ dateRange # Some(NewRange(range))
    /\ pickerRange' = Some(NewRange(range))
    /\ dateRange' = Some(NewRange(range))
    /\ UNCHANGED <<username, selectedRepo>>
    /\ UNCHANGED <<listVars, resultVars, propVars, extVars, filterVars,
                   exportedText, fmtVars, authVars>>

-----------------------------------------------------------------------------
(* Index page: fetchRepositories                                           *)

\* username.trim()
Trim(u) == IF u = " " THEN "" ELSE u

\* Faulty variant: the handler sends the request without looking at the
\* username.
FetchRepositoriesUnchecked ==
    /\ UsernameCardShown
    /\ ~loadingRepos
    /\ Trim(username) = ""
    /\ loadingRepos' = TRUE
    /\ reposReq' = Some([username |-> username])
    /\ repoNotices' = <<>>
    /\ UNCHANGED repositories
    /\ UNCHANGED <<inputVars, resultVars, propVars, extVars, filterVars,
                   exportedText, fmtVars, authVars>>

\* "Load Repos" clicked (disabled={loadingRepos}) with nothing to look up:
\* the handler raises a notice and returns.
FetchRepositoriesBlocked ==
    /\ UsernameCardShown
    /\ ~loadingRepos
    /\ Trim(username) = ""
    /\ repoNotices' = <<"Username required">>
    /\ UNCHANGED <<repositories, loadingRepos, reposReq>>
    /\ UNCHANGED <<inputVars, resultVars, propVars, extVars, filterVars,
                   exportedText, fmtVars, authVars>>

\* "Load Repos" clicked: setLoadingRepos(true) and the request is sent.
FetchRepositoriesStart ==
    /\ UsernameCardShown
    /\ ~loadingRepos
    /\ Trim(username) # ""
    /\ loadingRepos' = TRUE
    /\ reposReq' = Some([username |-> username])
    /\ repoNotices' = <<>>
    /\ UNCHANGED repositories
    /\ UNCHANGED <<inputVars, resultVars, propVars, extVars, filterVars,
                   exportedText, fmtVars, authVars>>

\* The listing answers ok: setRepositories(repos), notice, finally.
FetchRepositoriesOk ==
    /\ reposReq # None
    /\ KnownOwner(reposReq[1].username)
    /\ repositories' = RemoteRepos(reposReq[1].username)
    /\ repoNotices' = Append(repoNotices, "Repositories loaded")
    /\ loadingRepos' = FALSE
    /\ reposReq' = None
    /\ UNCHANGED <<inputVars, resultVars, propVars, extVars, filterVars,
                   exportedText, fmtVars, authVars>>

\* Faulty variant: a failed listing empties the repository list.
FetchRepositoriesFailClears ==
    /\ reposReq # None
    /\ repoNotices' = Append(repoNotices, "Error")
    /\ loadingRepos' = FALSE
    /\ reposReq' = None
    /\ repositories' = <<>>
    /\ UNCHANGED <<inputVars, resultVars, propVars, extVars, filterVars,
                   exportedText, fmtVars, authVars>>

\* The listing answers with a non-success status, or fetch throws: catch,
\* finally.
FetchRepositoriesFail ==
    /\ reposReq # None
    /\ repoNotices' = Append(repoNotices, "Error")
    /\ loadingRepos' = FALSE
    /\ reposReq' = None
    /\ UNCHANGED repositories
    /\ UNCHANGED <<inputVars, resultVars, propVars, extVars, filterVars,
                   exportedText, fmtVars, authVars>>

-----------------------------------------------------------------------------
(* Index page: fetchCommits.  ext is the call's frame: the values of       *)
(* username, selectedRepo and dateRange the handler closed over, its       *)
(* locals allCommits and page, and where it stands.                        *)

ExtIdle == [pc |-> "idle", username |-> "", selectedRepo |-> "",
            dateRange |-> None, allCommits |-> <<>>, page |-> 1]

\* Faulty variant: the tag is the repository selected when the page arrives.
commitsWithRepoLive(pageCommits, repo) ==
    [i \in 1..Len(pageCommits) |-> WithRepo(pageCommits[i], selectedRepo)]

\* pageCommits.map(commit => ({ ...commit, repository: { name: selectedRepo } }))
commitsWithRepo(pageCommits, repo) ==
    [i \in 1..Len(pageCommits) |-> WithRepo(pageCommits[i], repo)]

\* Faulty variant: the last-page test takes a full page for the last one.
LastPageOffByOne(pageCommits) == Len(pageCommits) <= perPage

\* Faulty variant: the loop also stops after its second page.
LastPageCapped(pageCommits) == Len(pageCommits) < perPage \/ ext.page >= 2

\* if (pageCommits.length < perPage) break
LastPage(pageCommits) == Len(pageCommits) < perPage

\* The page the loop asks for after the one it has just appended.
NextPage(page) == page + 1

\* Date.prototype.toISOString: the instant, as UTC text.
toISOString(date) == <<"ISO", date>>

\* Faulty variant: the request is built from the page's current inputs.
PageRequestLive(frame, page) ==
    [owner    |-> username,
     repo     |-> selectedRepo,
     since    |-> toISOString(dateRange[1].from),
     until    |-> toISOString(dateRange[1].to),
     per_page |-> perPage,
     page     |-> page]

\* GET /repos/${username}/${selectedRepo}/commits?since&until&per_page&page,
\* from the values the handler closed over.
PageRequest(frame, page) ==
    [owner    |-> frame.username,
     repo     |-> frame.selectedRepo,
     since    |-> toISOString(frame.dateRange[1].from),
     until    |-> toISOString(frame.dateRange[1].to),
     per_page |-> perPage,
     page     |-> page]

\* Faulty variant: the button stays enabled during an extraction.
ExtractNeverDisabled == FALSE

\* <Button onClick={fetchCommits} disabled={loading}>
ExtractDisabled == loading

\* fetchCommits called while no repository or no date range is chosen: the
\* handler raises a notice and returns.  (The button that calls it is
\* rendered only while both are chosen; this is the handler's own check.)
FetchCommitsBlocked ==
    /\ selectedRepo = "" \/ dateRange = None
    /\ ~ExtractDisabled
    /\ extNotices' = <<"Missing information">>
    /\ UNCHANGED <<ext, calls, requests, served>>
    /\ UNCHANGED <<pageVars, filterVars, exportedText, fmtVars, authVars>>

\* "Extract Commits" clicked.  The button is rendered while a repository
\* and a date range are chosen and is disabled while loading, so the
\* handler's own check of them passes: setLoading(true), setCommits([]),
\* and the request for page 1 is sent.
FetchCommitsStart ==
    /\ selectedRepo # "" /\ dateRange # None
    /\ ~ExtractDisabled
    /\ loading' = TRUE
    /\ commits' = <<>>
    /\ RenderFilter(<<>>)
    /\ ext' = [pc |-> "awaiting", username |-> username,
               selectedRepo |-> selectedRepo, dateRange |-> dateRange,
               allCommits |-> <<>>, page |-> 1]
    /\ calls' = 1
    /\ requests' = <<PageRequest(ext', 1)>>
    /\ served' = <<>>
    /\ extNotices' = <<>>
    /\ UNCHANGED <<filteredCommits, tokenCount>>
    /\ UNCHANGED <<inputVars, listVars, propVars, exportedText, fmtVars, authVars>>

\* After the loop: setCommits, setFilteredCommits, notice, finally.
FetchCommitsFinish(allCommits) ==
    /\ commits' = allCommits
    /\ filteredCommits' = allCommits
    /\ RenderFilter(allCommits)
    /\ RenderExporter(allCommits)
    /\ extNotices' = Append(extNotices, "Commits loaded")
    /\ loading' = FALSE
    /\ ext' = [ext EXCEPT !.pc = "done", !.allCommits = <<>>]
    /\ UNCHANGED <<calls, requests>>

\* The loop goes round: the request for the next page is sent.
FetchCommitsContinue(allCommits) ==
    /\ ext' = [ext EXCEPT !.allCommits = allCommits, !.page = NextPage(ext.page)]
    /\ calls' = calls + 1
    /\ requests' = Append(requests, PageRequest(ext, NextPage(ext.page)))
    /\ UNCHANGED <<commits, filteredCommits, loading, extNotices,
                   filterVars, exportedText>>

\* A page request answers ok with n commits.
FetchCommitsPage(n) ==
    /\ ext.pc = "awaiting"
    /\ n \in PageSizes(ext.page)
    /\ served' = Append(served, n)
    /\ LET pageCommits == RemotePage(ext.page, n)
           allCommits  == ext.allCommits \o
                              commitsWithRepo(pageCommits, ext.selectedRepo)
       IN  IF Len(pageCommits) = 0
           THEN FetchCommitsFinish(ext.allCommits)
           ELSE IF LastPage(pageCommits)
                THEN FetchCommitsFinish(allCommits)
                ELSE FetchCommitsContinue(allCommits)
    /\ UNCHANGED tokenCount
    /\ UNCHANGED <<inputVars, listVars, propVars, fmtVars, authVars>>

\* Faulty variant: the catch block stores what the loop had accumulated.
FetchCommitsFailKeepsPartial ==
    /\ ext.pc = "awaiting"
    /\ extNotices' = Append(extNotices, "Error")
    /\ loading' = FALSE
    /\ commits' = ext.allCommits
    /\ ext' = [ext EXCEPT !.pc = "failed", !.allCommits = <<>>]
    /\ UNCHANGED <<calls, requests, served>>
    /\ UNCHANGED <<filteredCommits, tokenCount>>
    /\ UNCHANGED <<inputVars, listVars, propVars, filterVars, exportedText,
                   fmtVars, authVars>>

\* Faulty variant: setLoading(false) is in the try block, not in finally.
FetchCommitsFailNoFinally ==
    /\ ext.pc = "awaiting"
    /\ extNotices' = Append(extNotices, "Error")
    /\ ext' = [ext EXCEPT !.pc = "failed", !.allCommits = <<>>]
    /\ UNCHANGED <<calls, requests, served>>
    /\ UNCHANGED <<commits, filteredCommits, tokenCount, loading>>
    /\ UNCHANGED <<inputVars, listVars, propVars, filterVars, exportedText,
                   fmtVars, authVars>>

\* A page request answers with a non-success status, or fetch throws:
\* catch, finally.
FetchCommitsFail ==
    /\ ext.pc = "awaiting"
    /\ extNotices' = Append(extNotices, "Error")
    /\ loading' = FALSE
    /\ ext' = [ext EXCEPT !.pc = "failed", !.allCommits = <<>>]
    /\ UNCHANGED <<calls, requests, served>>
    /\ UNCHANGED <<commits, filteredCommits, tokenCount>>
    /\ UNCHANGED <<inputVars, listVars, propVars, filterVars, exportedText,
                   fmtVars, authVars>>

-----------------------------------------------------------------------------
(* The page                                                                *)

FormatIdle ==
    /\ fmtCommit = None
    /\ fmtIndex = 1
    /\ fmtBlocks = <<>>

PageInitial ==
    /\ username = ""
    /\ repositories = <<>>
    /\ selectedRepo = ""
    /\ dateRange = None
    /\ commits = <<>>
    /\ filteredCommits = <<>>
    /\ tokenCount = 0
    /\ loading = FALSE
    /\ loadingRepos = FALSE
    /\ detailLevel = 3
    /\ selectedRepos = <<>>
    /\ pickerRange = None
    /\ reposReq = None
    /\ repoNotices = <<>>
    /\ ext = ExtIdle
    /\ calls = 0
    /\ requests = <<>>
    /\ served = <<>>
    /\ extNotices = <<>>

Init ==
    /\ PageInitial
    /\ FilterInitial
    /\ ExporterInitial
    /\ AuthInitial
    /\ FormatIdle

\* The typing, the calendar pick and the answers one extraction session
\* is explored with.
SessionUsernames == {"", "alice"}
SessionRanges    == {[from |-> Some(0), to |-> Some(0)]}

Next ==
    \/ \E u \in SessionUsernames : SetUsername(u)
    \/ FetchRepositoriesBlocked
    \/ FetchRepositoriesStart
    \/ FetchRepositoriesOk
    \/ FetchRepositoriesFail
    \/ \E i \in 1..2 : SelectRepo(i)
    \/ \E range \in SessionRanges : handleDateSelect(range)
    \/ FetchCommitsStart
    \/ \E n \in {0, 37, perPage} : FetchCommitsPage(n)
    \/ FetchCommitsFail

Spec == Init /\ [][Next]_vars

-----------------------------------------------------------------------------
(* Properties of the extraction                                            *)

RECURSIVE SumSeq(_)
SumSeq(sizes) == IF sizes = <<>> THEN 0 ELSE Head(sizes) + SumSeq(Tail(sizes))

\* C1: when an extraction completes, it has issued exactly k requests,
\* where page k is the first page received with fewer than 100 items and
\* pages 1..k-1 held exactly 100; the stored list is pages 1..k one after
\* the other in page order (the j-th stored commit is commit ((j-1) mod 100)+1
\* of page ((j-1) div 100)+1).  Sizes [100, 100, 37] give 3 calls and 237
\* commits; a first page of size 0 gives 1 call and an empty list.
C1_PaginationStoresAllPages ==
    ext.pc = "done" =>
        /\ calls = Len(served)
        /\ calls >= 1
        /\ \A p \in 1..(calls - 1) : served[p] = 100
        /\ served[calls] < 100
        /\ Len(commits) = SumSeq(served)
        /\ \A j \in 1..Len(commits) :
              commits[j].sha =
                  RemoteCommit(((j - 1) \div 100) + 1, ((j - 1) % 100) + 1).sha
        /\ (served = <<100, 100, 37>> => calls = 3 /\ Len(commits) = 237)
        /\ (served = <<0>> => calls = 1 /\ commits = <<>>)

\* C1 witness: an extraction has completed on pages of sizes 100, 100, 37.
C1_Witness ==
    /\ ext.pc = "done"
    /\ served = <<100, 100, 37>>
    /\ Len(commits) = 237

\* C2: after a page request has failed, the extraction has issued no request
\* beyond the failed one, has raised exactly one notice, the error, and the
\* page holds an empty commit list: what earlier pages delivered is gone.
C2_FailureDiscardsPartial ==
    ext.pc = "failed" =>
        /\ calls = Len(served) + 1
        /\ extNotices = <<"Error">>
        /\ commits = <<>>
        /\ ~loading

\* C2 witness: the third page request failed after two full pages.
C2_Witness ==
    /\ ext.pc = "failed"
    /\ served = <<100, 100>>
    /\ calls = 3

-----------------------------------------------------------------------------
(* The handlers called on missing input                                    *)

\* The usernames typed: none, a blank, a name.
CallUsernames == {"", " ", "alice"}

\* The page with every handler called, fetchCommits also while the button
\* that calls it is not rendered.
NextCalls ==
    \/ \E u \in CallUsernames : SetUsername(u)
    \/ FetchRepositoriesBlocked
    \/ FetchRepositoriesStart
    \/ FetchRepositoriesOk
    \/ FetchRepositoriesFail
    \/ SelectRepo(1)
    \/ \E range \in SessionRanges : handleDateSelect(range)
    \/ FetchCommitsBlocked
    \/ FetchCommitsStart
    \/ \E n \in {0, 37} : FetchCommitsPage(n)
    \/ FetchCommitsFail

SpecCalls == Init /\ [][NextCalls]_vars

\* C11: a call of fetchRepositories with an empty or blank username sends
\* no request, leaves repositories and loadingRepos as they were and raises
\* exactly one notice; a call of fetchCommits with no repository or no date
\* range sends no request, leaves commits, filteredCommits and loading as
\* they were and raises exactly one notice.
C11_MissingInputBlocks ==
    [][/\ (/\ Trim(username) = ""
           /\ ~loadingRepos
           /\ listVars' # listVars)
          => /\ reposReq' = None
             /\ repositories' = repositories
             /\ loadingRepos' = loadingRepos
             /\ repoNotices' = <<"Username required">>
       /\ (/\ selectedRepo = "" \/ dateRange = None
           /\ <<extVars, resultVars>>' # <<extVars, resultVars>>)
          => /\ requests' = requests /\ calls' = calls
             /\ ext' = ext
             /\ commits' = commits
             /\ filteredCommits' = filteredCommits
             /\ loading' = loading
             /\ extNotices' = <<"Missing information">>]_vars

\* C11 witness: both handlers have been called on missing input, the
\* listing with a blank for a username.
C11_Witness ==
    /\ username = " "
    /\ repoNotices = <<"Username required">>
    /\ dateRange = None
    /\ extNotices = <<"Missing information">>
    /\ requests = <<>>
    /\ reposReq = None

\* C12: no commit-page request is sent for an empty username: every
\* request an extraction has sent names an owner.
C12_NoExtractionWithoutUsername ==
    \A i \in 1..Len(requests) : Trim(requests[i].owner) # ""

-----------------------------------------------------------------------------
(* One extraction while the user goes on typing and choosing               *)

\* The ranges picked: a single day, and another day picked as from alone.
CaptureRanges == {[from |-> Some(0), to |-> Some(0)],
                  [from |-> Some(MsPerDay), to |-> None]}

NextCapture ==
    \/ \E u \in SessionUsernames : SetUsername(u)
    \/ FetchRepositoriesBlocked
    \/ FetchRepositoriesStart
    \/ FetchRepositoriesOk
    \/ FetchRepositoriesFail
    \/ \E i \in 1..2 : SelectRepo(i)
    \/ \E range \in CaptureRanges : handleDateSelect(range)
    \/ FetchCommitsStart
    \/ \E n \in {0, 37, perPage} : FetchCommitsPage(n)
    \/ FetchCommitsFail

SpecCapture == Init /\ [][NextCapture]_vars

\* The responses the current extraction has received: the pages served
\* and the failure.
Responses == Len(served) + (IF ext.pc = "failed" THEN 1 ELSE 0)

\* C13: the requests of one extraction are sequential.  At most one is
\* outstanding, the request for page n+1 is sent only once page n has been
\* answered, the pages asked for are 1, 2, 3, ... in order, and every
\* request carries the owner, repository, since and until the page held
\* when the extraction started.
C13_SequentialRequests ==
    /\ calls = Len(requests)
    /\ Len(requests) - Responses \in {0, 1}
    /\ (Len(requests) - Responses = 1) = (ext.pc = "awaiting")
    /\ \A i \in 1..Len(requests) :
          /\ requests[i].page = i
          /\ i > 1 => Len(served) >= i - 1
          /\ requests[i].owner = ext.username
          /\ requests[i].repo = ext.selectedRepo
          /\ requests[i].since = toISOString(ext.dateRange[1].from)
          /\ requests[i].until = toISOString(ext.dateRange[1].to)
          /\ requests[i].owner = requests[1].owner
          /\ requests[i].repo = requests[1].repo
          /\ requests[i].since = requests[1].since
          /\ requests[i].until = requests[1].until

\* C13 witness: the third page has been asked for after the user changed
\* the username, the repository and the date range.
C13_Witness ==
    /\ ext.pc = "awaiting"
    /\ Len(requests) = 3
    /\ served = <<100, 100>>
    /\ username # ext.username
    /\ selectedRepo # ext.selectedRepo
    /\ dateRange # ext.dateRange

\* C14 as stated: while an extraction is in flight, a second one can be
\* started.
C14_NotFenced ==
    ext.pc = "awaiting" => ENABLED FetchCommitsStart

\* C14 as amended: while an extraction is in flight the page is loading and
\* no second extraction can be started; the commit list is empty until the
\* one extraction in flight writes it.
C14_Fenced ==
    ext.pc = "awaiting" =>
        /\ loading
        /\ ~ENABLED FetchCommitsStart
        /\ commits = <<>>

\* C14 witness: an extraction is in flight with a page already received,
\* and the button is there (a repository and a date range are chosen).
C14_Witness ==
    /\ ext.pc = "awaiting"
    /\ Len(served) = 1
    /\ selectedRepo # ""
    /\ dateRange # None
    /\ loading

-----------------------------------------------------------------------------
(* formatCommitByDetailLevel on its own: one commit and sequence index,    *)
(* rendered at one level after another.                                    *)

\* The longest commit list, and the largest sequence index, explored.
MaxLen == 3

PoolShas == {<<"a1b2c3d4", "e5f60718">>, <<"a1b2c3d4", "00000000">>}

PoolAuthors ==
    {[name |-> "Ann", email |-> "ann@example.com",
      date |-> MsPerDay + 9 * MsPerHour + 30 * MsPerMinute + 15 * 1000],
     [name |-> "7", email |-> "seven@example.com",
      date |-> 23 * MsPerHour + 59 * MsPerMinute]}

\* A title alone; a title and a body; a title and a body of blank lines.
PoolMessages ==
    {<<"fix bug">>, <<"add api", "", "adds the api", "">>, <<"tidy", " ", "">>}

PoolExtras ==
    {[stats |-> None, files |-> None],
     [stats |-> Some([additions |-> 3, deletions |-> 0]),
      files |-> Some(<<"a.ts", "b.ts">>)]}

PoolRepos == {"api", "web"}

\* Commits as the page holds them: every one tagged by fetchCommits.
CommitPool ==
    {WithRepo(ApiCommit(sha, a.name, a.email, a.date, msg, x.stats, x.files), r) :
        sha \in PoolShas, a \in PoolAuthors, msg \in PoolMessages,
        x \in PoolExtras, r \in {"api"}}

\* The levels the formatter is called with: 1..5, and numbers outside.
FormatLevels == {-1, 0, 1, 2, 3, 4, 5, 6}

InitFormat ==
    /\ PageInitial
    /\ FilterInitial
    /\ ExporterInitial
    /\ AuthInitial
    /\ fmtCommit \in {Some(c) : c \in CommitPool}
    /\ fmtIndex \in 1..MaxLen
    /\ fmtBlocks = <<>>

\* formatCommitByDetailLevel(commit, index, level) is called; its result is
\* kept under the level.
FormatCommit(level) ==
    /\ fmtCommit # None
    /\ level \notin DOMAIN fmtBlocks
    /\ fmtBlocks' =
          [l \in DOMAIN fmtBlocks \cup {level} |->
              IF l = level
              THEN formatCommitTrace(fmtCommit[1], fmtIndex, level)
              ELSE fmtBlocks[l]]
    /\ UNCHANGED <<fmtCommit, fmtIndex>>
    /\ UNCHANGED <<pageVars, extVars, filterVars, exportedText, authVars>>

NextFormat == \E level \in FormatLevels : FormatCommit(level)

SpecFormat == InitFormat /\ [][NextFormat]_vars

\* The commit fields a rendered block shows, each with the value shown,
\* read off the block: the short hash is shown alone or as the start of
\* the full hash, the date with or without its time of day.
FieldsRendered(block) ==
    LET has(k) == k \in DOMAIN block
        opt(k, f) == IF has(k) THEN {<<f, block[k]>>} ELSE {}
        text(k) == IF has(k) /\ block[k] # <<>> THEN {<<"body", block[k]>>} ELSE {}
    IN  {<<"shortHash", block.sha[1]>>}
        \cup (IF Len(block.sha) = 2 THEN {<<"fullHash", block.sha>>} ELSE {})
        \cup opt("title", "title")
        \cup opt("author", "author")
        \cup (IF has("date") THEN {<<"date", block.date[1]>>} ELSE {})
        \cup (IF has("date") /\ Len(block.date) >= 3
              THEN {<<"time", <<block.date[2], block.date[3]>>>>} ELSE {})
        \cup text("details") \cup text("description")
        \cup opt("email", "email")
        \cup opt("repository", "repository")
        \cup opt("url", "url")
        \cup opt("stats", "stats")
        \cup opt("files", "files")

FieldNames(block) == {f[1] : f \in FieldsRendered(block)}

\* C5: for levels L1 < L2 in 1..5, every commit field the block of L1 shows
\* is shown, with the same value, by the block of L2 of the same commit.
C5_DetailMonotonic ==
    \A l1 \in DOMAIN fmtBlocks, l2 \in DOMAIN fmtBlocks :
        (l1 \in 1..5 /\ l2 \in 1..5 /\ l1 < l2) =>
            FieldsRendered(fmtBlocks[l1].block) \subseteq
                FieldsRendered(fmtBlocks[l2].block)

\* C5 witness: a commit with a body, stats and files rendered at all five
\* levels, each level showing a field the level below does not.
C5_Witness ==
    /\ 1..5 \subseteq DOMAIN fmtBlocks
    /\ "body" \in FieldNames(fmtBlocks[3].block)
    /\ \A l \in 1..4 :
          FieldNames(fmtBlocks[l].block) # FieldNames(fmtBlocks[l + 1].block)

\* C6: a level outside 1..5 renders the block of level 3 for the same commit
\* and sequence index, by one further call of the formatter.
C6_FallbackToStandard ==
    \A l \in DOMAIN fmtBlocks :
        l \notin 1..5 =>
            /\ fmtBlocks[l].steps = 2
            /\ fmtBlocks[l].block.layout = "standard"
            /\ 3 \in DOMAIN fmtBlocks => fmtBlocks[l].block = fmtBlocks[3].block

\* C6 witness: levels 0 and 6 and level 3 have been rendered.
C6_Witness == {0, 3, 6} \subseteq DOMAIN fmtBlocks

-----------------------------------------------------------------------------
(* CommitFilter                                                            *)

Range(seq) == {seq[i] : i \in 1..Len(seq)}

\* Faulty variant: the predicate has no case for the empty selection.
KeepsCommitNoEmptyCase(commit, repos) ==
    RepoNameOr(commit, "unknown") \in Range(repos)

\* The predicate of commits.filter in applyFilters.
KeepsCommit(commit, repos) ==
    IF Len(repos) = 0 THEN TRUE
    ELSE RepoNameOr(commit, "unknown") \in Range(repos)

\* Faulty variant: the table gives the detailed level the standard estimate.
getTokensPerCommitFlat(level) ==
    CASE level = 1 -> 25
      [] level = 2 -> 50
      [] level = 3 -> 100
      [] level = 4 -> 100
      [] level = 5 -> 200
      [] OTHER     -> 100

\* tokenMap[level] || 100
getTokensPerCommit(level) ==
    CASE level = 1 -> 25
      [] level = 2 -> 50
      [] level = 3 -> 100
      [] level = 4 -> 150
      [] level = 5 -> 200
      [] OTHER     -> 100

\* Index.handleFilterChange, and the render that follows.
handleFilterChange(filtered, tokens) ==
    /\ filteredCommits' = filtered
    /\ tokenCount' = tokens
    /\ RenderExporter(filtered)

\* applyFilters(repos, detail), over the commits prop.
applyFilters(repos, detail) ==
    LET filtered        == SelectSeq(commits, LAMBDA c : KeepsCommit(c, repos))
        tokensPerCommit == getTokensPerCommit(detail)
        estimatedTokens == Len(filtered) * tokensPerCommit
    IN  /\ cfTokenCount' = estimatedTokens
        /\ handleFilterChange(filtered, estimatedTokens)
        /\ cfApplied' = Some([repos |-> repos, detail |-> detail])

\* The repositories prop: repositories.filter(repo => commits.some(c =>
\* c.repository?.name === repo.name))
FilterRepositories ==
    SelectSeq(repositories,
              LAMBDA repo : \E i \in 1..Len(commits) :
                  /\ commits[i].repository # None
                  /\ commits[i].repository[1].name = repo.name)

\* A checkbox of a listed repository is clicked.
handleRepoToggle(repoName) ==
    /\ commits # <<>>
    /\ repoName \in {r.name : r \in Range(FilterRepositories)}
    /\ LET updated == IF repoName \in Range(cfSelectedRepos)
                      THEN SelectSeq(cfSelectedRepos, LAMBDA r : r # repoName)
                      ELSE Append(cfSelectedRepos, repoName)
       IN  /\ cfSelectedRepos' = updated
           /\ applyFilters(updated, cfDetailLevel[1])
    /\ UNCHANGED <<cfDetailLevel, commits, loading>>
    /\ UNCHANGED <<inputVars, listVars, propVars, extVars, fmtVars, authVars>>

\* The slider moves; it takes the values 1..5.
handleDetailLevelChange(value) ==
    /\ commits # <<>>
    /\ value[1] \in 1..5
    /\ value # cfDetailLevel
    /\ cfDetailLevel' = value
    /\ applyFilters(cfSelectedRepos, value[1])
    /\ UNCHANGED <<cfSelectedRepos, commits, loading>>
    /\ UNCHANGED <<inputVars, listVars, propVars, extVars, fmtVars, authVars>>

\* "Select All": setSelectedRepos(repositories.map(r => r.name)), and nothing
\* else.
SelectAll ==
    /\ commits # <<>>
    /\ cfSelectedRepos' =
          [i \in 1..Len(FilterRepositories) |-> FilterRepositories[i].name]
    /\ UNCHANGED <<cfDetailLevel, cfTokenCount, cfApplied>>
    /\ UNCHANGED <<pageVars, extVars, exportedText, fmtVars, authVars>>

\* "Clear All": setSelectedRepos([]), and nothing else.
ClearAll ==
    /\ commits # <<>>
    /\ cfSelectedRepos' = <<>>
    /\ UNCHANGED <<cfDetailLevel, cfTokenCount, cfApplied>>
    /\ UNCHANGED <<pageVars, extVars, exportedText, fmtVars, authVars>>

\* Commit lists of up to n commits over a pool.
ListsOver(pool, n) == UNION {[1..k -> pool] : k \in 1..n}

\* The commits the filter is tried on: two hashes in each of two
\* repositories.
FilterPool ==
    {WithRepo(ApiCommit(sha, "Ann", "ann@example.com", MsPerDay, <<"fix bug">>,
                        None, None), r) :
        sha \in PoolShas, r \in PoolRepos}

\* CommitFilter freshly mounted over its props: a repository list and a
\* list of commits, each tagged with the repository it was extracted from.
InitFilter ==
    /\ username = "alice"
    /\ repositories = RemoteRepos("alice")
    /\ selectedRepo = "api"
    /\ dateRange = Some(NewRange([from |-> Some(0), to |-> Some(0)]))
    /\ commits \in ListsOver(FilterPool, MaxLen)
    /\ filteredCommits = commits
    /\ tokenCount = 0
    /\ loading = FALSE
    /\ loadingRepos = FALSE
    /\ detailLevel = 3
    /\ selectedRepos = <<>>
    /\ pickerRange = dateRange
    /\ reposReq = None
    /\ repoNotices = <<>>
    /\ ext = ExtIdle
    /\ calls = 0
    /\ requests = <<>>
    /\ served = <<>>
    /\ extNotices = <<>>
    /\ FilterInitial
    /\ ExporterInitial
    /\ AuthInitial
    /\ FormatIdle

NextFilter ==
    \/ \E repoName \in PoolRepos : handleRepoToggle(repoName)
    \/ \E v \in 1..5 : handleDetailLevelChange(<<v>>)
    \/ SelectAll
    \/ ClearAll

SpecFilter == InitFilter /\ [][NextFilter]_vars

\* The positions of the commits whose tagged repository name is in repos.
KeptPositions(repos) ==
    {i \in 1..Len(commits) : commits[i].repository[1].name \in Range(repos)}

\* The j-th smallest member of a set of positions.
NthPosition(positions, j) ==
    CHOOSE i \in positions : Cardinality({k \in positions : k <= i}) = j

\* C3: what applyFilters last reported is, for an empty selection, the
\* commit list itself, and for a non-empty selection exactly the commits
\* whose tagged repository name is selected, in their original order.
C3_FilterBySelection ==
    cfApplied # None =>
        LET repos == cfApplied[1].repos
            kept  == KeptPositions(repos)
        IN  IF repos = <<>>
            THEN filteredCommits = commits
            ELSE /\ Len(filteredCommits) = Cardinality(kept)
                 /\ \A j \in 1..Len(filteredCommits) :
                       filteredCommits[j] = commits[NthPosition(kept, j)]

\* C3 witness: both cases have happened on a list that mixes repositories:
\* a one-repository selection has kept two commits and dropped one between
\* or around them.
C3_Witness ==
    /\ cfApplied # None
    /\ Len(cfApplied[1].repos) = 1
    /\ Len(commits) = 3
    /\ Len(filteredCommits) = 2
    /\ filteredCommits[1] # filteredCommits[2]

\* The estimate table of the specification.
TokenConstant(level) ==
    CASE level = 1 -> 25 [] level = 2 -> 50 [] level = 3 -> 100
      [] level = 4 -> 150 [] level = 5 -> 200

\* C4: the estimate applyFilters last reported, to the page and to the
\* component's own display, is the number of filtered commits times the
\* constant of the level it was called with; and a change of the detail
\* level alone (the selection being the one last applied) leaves the
\* filtered list as it is and sets the estimate to the new level's constant
\* times the same count.
C4_TokenEstimate ==
    /\ [](cfApplied # None =>
            /\ cfApplied[1].detail \in 1..5
            /\ tokenCount = Len(filteredCommits) * TokenConstant(cfApplied[1].detail)
            /\ cfTokenCount = tokenCount)
    /\ [][(/\ cfDetailLevel' # cfDetailLevel
           /\ cfApplied # None
           /\ cfApplied[1].repos = cfSelectedRepos)
          => /\ filteredCommits' = filteredCommits
             /\ tokenCount' = Len(filteredCommits) * TokenConstant(cfDetailLevel'[1])]_vars

\* C4 witness: the level went to 4 with two commits filtered out of three.
C4_Witness ==
    /\ cfApplied # None
    /\ cfApplied[1].detail = 4
    /\ Len(filteredCommits) = 2
    /\ Len(commits) = 3
    /\ tokenCount = 300

-----------------------------------------------------------------------------
(* EnhancedCommitExporter: the report builder.  The document is the record *)
(* of what the three template literals print; the "Generated" line, the    *)
(* clock's reading, is left out.                                           *)

\* Math.ceil(a / b) for b > 0
Ceil(a, b) == -((-a) \div b)

\* Math.ceil((to.getTime() - from.getTime()) / (1000 * 60 * 60 * 24))
TimeSpanDays(range) == Ceil(range.to - range.from, MsPerDay)

\* (n / days).toFixed(2): the quotient in hundredths, rounded to nearest,
\* or what JavaScript prints for a division by zero.
AveragePerDay(n, days) ==
    IF days = 0
    THEN [text |-> IF n = 0 THEN "NaN" ELSE "Infinity", hundredths |-> 0]
    ELSE [text |-> "number", hundredths |-> (2 * 100 * n + days) \div (2 * days)]

\* getDetailLevelName
getDetailLevelName(level) ==
    CASE level = 1 -> "Minimal"
      [] level = 2 -> "Basic"
      [] level = 3 -> "Standard"
      [] level = 4 -> "Detailed"
      [] level = 5 -> "Maximum"
      [] OTHER     -> "Standard"

\* The keys of the object a reduce builds, in the order the keys were
\* created: the distinct values of a sequence by first occurrence.
KeysCreated(names) ==
    LET firsts == {i \in 1..Len(names) :
                      \A k \in 1..(i - 1) : names[k] # names[i]}
        nth(j) == CHOOSE i \in firsts :
                      Cardinality({k \in firsts : k <= i}) = j
    IN  [j \in 1..Cardinality(firsts) |-> names[nth(j)]]

\* acc[name] after the reduce
CountOf(name, names) == Cardinality({i \in 1..Len(names) : names[i] = name})

\* The value of a key that is a canonical array index ("7" is 7), else -1.
ArrayIndex(key) ==
    CASE key = "7"  -> 7
      [] key = "42" -> 42
      [] OTHER      -> -1

\* The array-index keys among keys, ascending.
RECURSIVE IndexKeysAscending(_)
IndexKeysAscending(keys) ==
    IF keys = {} THEN <<>>
    ELSE LET least == CHOOSE k \in keys :
                          \A other \in keys : ArrayIndex(k) <= ArrayIndex(other)
         IN  <<least>> \o IndexKeysAscending(keys \ {least})

\* Object.entries(acc): own keys that are array indices first, in ascending
\* numeric order, then the other keys in the order they were created.
ObjectEntries(names) ==
    LET created == KeysCreated(names)
        indices == {k \in Range(created) : ArrayIndex(k) >= 0}
        keys    == IndexKeysAscending(indices) \o
                       SelectSeq(created, LAMBDA k : ArrayIndex(k) < 0)
    IN  [i \in 1..Len(keys) |-> <<keys[i], CountOf(keys[i], names)>>]

\* entries.sort(([,a], [,b]) => b - a): Array.prototype.sort is stable, so
\* this is an insertion of each entry after the entries that compare <= 0.
RECURSIVE SortByCountDesc(_)
SortByCountDesc(entries) ==
    IF entries = <<>> THEN <<>>
    ELSE LET sorted == SortByCountDesc(SubSeq(entries, 1, Len(entries) - 1))
             e      == entries[Len(entries)]
             before == {i \in 1..Len(sorted) : sorted[i][2] >= e[2]}
             k      == Cardinality(before)
         IN  SubSeq(sorted, 1, k) \o <<e>> \o SubSeq(sorted, k + 1, Len(sorted))

\* .slice(0, 5)
TopAuthors == 5

\* getAuthorAnalysis, one <<author, count>> per printed line
getAuthorAnalysis(filtered) ==
    LET names   == [i \in 1..Len(filtered) |-> filtered[i].commit.author.name]
        sorted  == SortByCountDesc(ObjectEntries(names))
    IN  SubSeq(sorted, 1, IF Len(sorted) < TopAuthors THEN Len(sorted) ELSE TopAuthors)

\* getRepositoryBreakdown, one <<repo, count>> per printed line
getRepositoryBreakdown(filtered) ==
    ObjectEntries([i \in 1..Len(filtered) |-> RepoNameOr(filtered[i], "Unknown")])

\* Faulty variant: the header counts the unfiltered list.
ExportHeaderCountsAll ==
    [user            |-> username,
     repositories    |-> IF Len(selectedRepos) > 0 THEN selectedRepos
                         ELSE <<"All repositories">>,
     dateRange       |-> <<format(dateRange[1].from, "yyyy-MM-dd"),
                           format(dateRange[1].to, "yyyy-MM-dd")>>,
     totalCommits    |-> Len(commits),
     filteredFrom    |-> Len(commits),
     detailLevel     |-> getDetailLevelName(detailLevel),
     estimatedTokens |-> tokenCount]

\* const header
ExportHeader ==
    [user            |-> username,
     repositories    |-> IF Len(selectedRepos) > 0 THEN selectedRepos
                         ELSE <<"All repositories">>,
     dateRange       |-> <<format(dateRange[1].from, "yyyy-MM-dd"),
                           format(dateRange[1].to, "yyyy-MM-dd")>>,
     totalCommits    |-> Len(filteredCommits),
     filteredFrom    |-> Len(commits),
     detailLevel     |-> getDetailLevelName(detailLevel),
     estimatedTokens |-> tokenCount]

\* Faulty variant: the blocks are numbered from 0.
ExportCommitDetailsFromZero ==
    [i \in 1..Len(filteredCommits) |->
        formatCommitByDetailLevel(filteredCommits[i], i - 1, detailLevel)]

\* const commitDetails: filteredCommits.map((commit, index) =>
\* formatCommitByDetailLevel(commit, index + 1, detailLevel))
ExportCommitDetails ==
    [i \in 1..Len(filteredCommits) |->
        formatCommitByDetailLevel(filteredCommits[i], (i - 1) + 1, detailLevel)]

\* const summary
ExportSummary ==
    [commitsAnalyzed     |-> Len(filteredCommits),
     repositories        |-> IF Len(selectedRepos) > 0 THEN <<Len(selectedRepos)>>
                             ELSE <<"All">>,
     timeSpan            |-> TimeSpanDays(dateRange[1]),
     average             |-> AveragePerDay(Len(filteredCommits),
                                           TimeSpanDays(dateRange[1])),
     repositoryBreakdown |-> getRepositoryBreakdown(filteredCommits),
     authorAnalysis      |-> getAuthorAnalysis(filteredCommits),
     footerLevel         |-> detailLevel]

\* "Generate Optimized Export" clicked; the button is there while the
\* exporter is rendered.
generateOptimizedFormat ==
    /\ filteredCommits # <<>>
    /\ dateRange # None
    /\ exportedText' = Some([header        |-> ExportHeader,
                             commitDetails |-> ExportCommitDetails,
                             summary       |-> ExportSummary])
    /\ UNCHANGED <<pageVars, extVars, filterVars, fmtVars, authVars>>

\* The commits the report is built from: a hash in each repository, by
\* each of three authors, one of them with a number for a name.
ExportPool ==
    {WithRepo(ApiCommit(x.sha, name, "dev@example.com", MsPerDay + 9 * MsPerHour,
                        <<x.title, "", "body">>, None, None), x.repo) :
        x \in {[sha |-> <<"a1b2c3d4", "e5f60718">>, title |-> "fix bug", repo |-> "api"],
               [sha |-> <<"0f9e8d7c", "6b5a4938">>, title |-> "add page", repo |-> "web"]},
        name \in {"Ann", "Bob", "7"}}

\* A list with one commit per name, in the order of the names.
ListByAuthors(names) ==
    [i \in 1..Len(names) |->
        WithRepo(ApiCommit(<<"5ca1ab1e", i>>, names[i], "dev@example.com",
                           MsPerDay, <<"work">>, None, None), "api")]

\* Longer lists: authors A and B with five commits each and C with three,
\* A met first; and six authors, the last of them with two commits.
ScenarioLists ==
    {ListByAuthors(<<"A", "B", "C", "A", "B", "C", "A", "B", "C", "A", "B", "A", "B">>),
     ListByAuthors(<<"Ann", "Bob", "Cy", "Di", "Ed", "Flo", "Flo">>)}

\* The ranges handleDateSelect can have stored.
ExportRanges == {NewRange(r) : r \in DayRanges}

\* The exporter freshly mounted over its props: a commit list, the list
\* filtered by a selection, a date range, a detail level and an estimate.
InitExport ==
    /\ username = "alice"
    /\ repositories = RemoteRepos("alice")
    /\ selectedRepo = "api"
    /\ \E r \in ExportRanges : dateRange = Some(r) /\ pickerRange = Some(r)
    /\ \/ /\ commits \in ListsOver(ExportPool, MaxLen)
          /\ selectedRepos \in {<<>>, <<"web">>}
          /\ detailLevel \in {1, 3}
       \/ /\ commits \in ScenarioLists
          /\ selectedRepos = <<>>
          /\ detailLevel = 3
    /\ filteredCommits = SelectSeq(commits, LAMBDA c : KeepsCommit(c, selectedRepos))
    /\ filteredCommits # <<>>
    /\ tokenCount = IF selectedRepos = <<>> THEN 0
                    ELSE Len(filteredCommits) * getTokensPerCommit(detailLevel)
    /\ loading = FALSE
    /\ loadingRepos = FALSE
    /\ reposReq = None
    /\ repoNotices = <<>>
    /\ ext = ExtIdle
    /\ calls = 0
    /\ requests = <<>>
    /\ served = <<>>
    /\ extNotices = <<>>
    /\ FilterInitial
    /\ ExporterInitial
    /\ AuthInitial
    /\ FormatIdle

NextExport == generateOptimizedFormat

SpecExport == InitExport /\ [][NextExport]_vars

\* C7: the summary's time span is at least one day: 1 when from = to, 2 for
\* from = 2024-01-01 and to = 2024-01-03, and the average is a number.
C7_TimeSpanFlooredAtOne ==
    exportedText # None =>
        LET summary == exportedText[1].summary
            \* (to - from) in days, rounded up
            days    == -((dateRange[1].from - dateRange[1].to) \div MsPerDay)
        IN  /\ summary.timeSpan >= 1
            /\ summary.timeSpan = (IF days = 0 THEN 1 ELSE days)
            /\ summary.average.text = "number"

\* The place of a name's first commit in the filtered list.
FirstMet(name) ==
    CHOOSE i \in 1..Len(filteredCommits) :
        /\ filteredCommits[i].commit.author.name = name
        /\ \A k \in 1..(i - 1) : filteredCommits[k].commit.author.name # name

\* C8: the author analysis lists at most 5 authors, by commit count
\* descending, no unlisted author having more commits than a listed one,
\* and authors of equal count in the order they were first met in the
\* filtered list.
C8_TopAuthorsByEncounter ==
    exportedText # None =>
        LET lines   == exportedText[1].summary.authorAnalysis
            names   == {filteredCommits[i].commit.author.name :
                            i \in 1..Len(filteredCommits)}
            listed  == {lines[i][1] : i \in 1..Len(lines)}
            count(n) == Cardinality({i \in 1..Len(filteredCommits) :
                                        filteredCommits[i].commit.author.name = n})
        IN  /\ Len(lines) <= 5
            /\ listed \subseteq names
            /\ \A i \in 1..Len(lines) : lines[i][2] = count(lines[i][1])
            /\ \A i \in 1..Len(lines), k \in 1..Len(lines) :
                  i < k => lines[i][2] >= lines[k][2]
            /\ \A n \in listed, m \in names \ listed : count(n) >= count(m)
            /\ \A i \in 1..Len(lines), k \in 1..Len(lines) :
                  (i < k /\ lines[i][2] = lines[k][2]) =>
                      FirstMet(lines[i][1]) < FirstMet(lines[k][1])

\* C9: the document's "Total Commits" and "Commits analyzed" are the length
\* of the filtered list the exporter was given, and it holds that many
\* per-commit blocks.
C9_TotalCommitsIsFilteredLength ==
    exportedText # None =>
        /\ exportedText[1].header.totalCommits = Len(filteredCommits)
        /\ exportedText[1].summary.commitsAnalyzed = Len(filteredCommits)
        /\ Len(exportedText[1].commitDetails) = Len(filteredCommits)

\* C9 witness: a document over a filtered list of two commits out of three.
C9_Witness ==
    /\ exportedText # None
    /\ Len(filteredCommits) = 2
    /\ Len(commits) = 3
    /\ exportedText[1].header.totalCommits = 2

\* C10: the i-th block of the document is the rendering of the i-th commit
\* of the filtered list with sequence index i: it carries that index and
\* that commit's short hash and title.
C10_BlocksInInputOrder ==
    exportedText # None =>
        LET blocks == exportedText[1].commitDetails
        IN  /\ Len(blocks) = Len(filteredCommits)
            /\ \A i \in 1..Len(blocks) :
                  /\ blocks[i].index = i
                  /\ blocks[i].sha[1] = filteredCommits[i].sha[1]
                  /\ blocks[i].title = filteredCommits[i].commit.message[1]
                  /\ blocks[i] =
                        formatCommitByDetailLevel(filteredCommits[i], i, detailLevel)

\* C10 witness: a document over three commits that are not in the order of
\* their hashes or authors: the first and the last are the same commit's
\* repository, the middle one another's.
C10_Witness ==
    /\ exportedText # None
    /\ Len(filteredCommits) = 3
    /\ filteredCommits[1].sha # filteredCommits[2].sha
    /\ filteredCommits[3].sha = filteredCommits[1].sha
    /\ filteredCommits[1].commit.author.name # filteredCommits[3].commit.author.name

-----------------------------------------------------------------------------
(* Failures, tags and termination                                          *)

\* C16: a listing that fails raises one notice, the error, sends no
\* further request, and leaves the repository list and the selected
\* repository as they are, with loadingRepos false; the list does not
\* change while the call is running either.
C16_FailedListingKeepsState ==
    [][/\ (/\ reposReq # None
           /\ repoNotices' # repoNotices
           /\ repoNotices'[Len(repoNotices')] = "Error")
          => /\ repoNotices' = <<"Error">>
             /\ reposReq' = None
             /\ ~loadingRepos'
             /\ repositories' = repositories
             /\ selectedRepo' = selectedRepo
       /\ (reposReq # None /\ reposReq' # None)
          => repositories' = repositories]_vars

\* C16 witness: a listing has failed on a page that had a repository list
\* and a selection; both are still there.
C16_Witness ==
    /\ repoNotices = <<"Error">>
    /\ ~loadingRepos
    /\ reposReq = None
    /\ repositories = RemoteRepos("alice")
    /\ selectedRepo = "web"

\* The network answers every request it has been sent.
SpecLive ==
    /\ Init /\ [][Next]_vars
    /\ WF_vars(FetchRepositoriesOk \/ FetchRepositoriesFail)
    /\ WF_vars((\E n \in {0, 37, perPage} : FetchCommitsPage(n)) \/ FetchCommitsFail)

\* C17: every started listing ends with loadingRepos false, and an
\* extraction that has ended, by its last page or by a failure, has left
\* loading false with the button to start again still there.
C17_NeverStuckLoading ==
    /\ loadingRepos ~> ~loadingRepos
    /\ [](ext.pc \in {"done", "failed"} =>
             ~loading /\ selectedRepo # "" /\ dateRange # None)

\* C17 witness: an extraction has failed and a listing has failed, and
\* neither flag is set.
C17_Witness ==
    /\ ext.pc = "failed"
    /\ repoNotices = <<"Error">>
    /\ ~loading
    /\ ~loadingRepos

\* The fields of a stored commit other than the tag.
Untagged(commit) ==
    [sha |-> commit.sha, commit |-> commit.commit, html_url |-> commit.html_url,
     stats |-> commit.stats, files |-> commit.files]

\* C18: every commit an extraction accumulates and stores carries the name
\* of the repository the extraction was started for, whatever is selected
\* by then, and is otherwise the commit the API answered.
C18_TaggedWithStartRepo ==
    /\ \A j \in 1..Len(ext.allCommits) :
          ext.allCommits[j].repository = Some([name |-> ext.selectedRepo])
    /\ ext.pc = "done" =>
          \A j \in 1..Len(commits) :
              /\ commits[j].repository = Some([name |-> ext.selectedRepo])
              /\ Untagged(commits[j]) =
                    Untagged(RemoteCommit(((j - 1) \div perPage) + 1,
                                          ((j - 1) % perPage) + 1))

\* C18 witness: two pages have been stored for one repository while the
\* other is selected.
C18_Witness ==
    /\ ext.pc = "done"
    /\ served = <<100, 37>>
    /\ Len(commits) = 137
    /\ ext.selectedRepo = "api"
    /\ selectedRepo = "web"

\* Every page received so far was full.
AllFull == \A p \in 1..Len(served) : served[p] = perPage

\* C19: the loop has no bound on the number of pages.  An extraction has
\* ended exactly when a page shorter than 100 has been received or a
\* request has failed; as long as every page received was full it is still
\* running, loading, with the next page asked for.
C19_EndsOnlyOnShortPageOrFailure ==
    calls > 0 =>
        /\ (ext.pc = "done") = (served # <<>> /\ served[Len(served)] < perPage)
        /\ (ext.pc = "failed") = (calls = Len(served) + 1 /\ ~loading)
        /\ (AllFull /\ ext.pc # "failed") =>
              /\ ext.pc = "awaiting"
              /\ loading
              /\ calls = Len(served) + 1
              /\ ext.page = Len(served) + 1
              /\ requests[calls].page = Len(served) + 1

\* C19 witness: after as many full pages as are explored, the extraction
\* is asking for the next one.
C19_Witness ==
    /\ ext.pc = "awaiting"
    /\ Len(served) = MaxPages - 1
    /\ AllFull
    /\ calls = MaxPages
    /\ loading

-----------------------------------------------------------------------------
(* The page with its filter and its exporter                               *)

\* The slider positions tried.
SliderLevels == {1, 3, 5}

NextIndex ==
    \/ SetUsername("alice")
    \/ FetchRepositoriesStart
    \/ FetchRepositoriesOk
    \/ \E i \in 1..2 : SelectRepo(i)
    \/ \E range \in SessionRanges : handleDateSelect(range)
    \/ FetchCommitsStart
    \/ \E n \in {0, 37} : FetchCommitsPage(n)
    \/ FetchCommitsFail
    \/ \E repoName \in PoolRepos : handleRepoToggle(repoName)
    \/ \E v \in SliderLevels : handleDetailLevelChange(<<v>>)
    \/ SelectAll
    \/ ClearAll
    \/ generateOptimizedFormat

SpecIndex == Init /\ [][NextIndex]_vars

\* The document a click on "Generate Optimized Export" builds now.
DocumentNow ==
    [header        |-> ExportHeader,
     commitDetails |-> ExportCommitDetails,
     summary       |-> ExportSummary]

\* C15 as stated: the export text changes only by a generate action; no
\* other change of the filtered list or of the estimate touches it.
C15_OnlyGenerateChangesExport ==
    [][exportedText' # exportedText => exportedText' = Some(DocumentNow)]_vars

\* C15 as amended: the export text changes only by a generate action, or
\* is dropped with the exporter when the filtered list becomes empty;
\* toggles, slider moves and extractions that leave commits to show do not
\* touch it.
C15_ExportChangesOnDemand ==
    [][exportedText' # exportedText =>
          \/ exportedText' = Some(DocumentNow)
          \/ exportedText' = None /\ filteredCommits' = <<>>]_vars

\* C15 witness: a generated text that the filter has left behind: the
\* estimate it prints is no longer the page's.
C15_Witness ==
    /\ exportedText # None
    /\ cfApplied # None
    /\ exportedText[1].header.estimatedTokens # tokenCount
    /\ exportedText[1].header.totalCommits = Len(filteredCommits)

\* C20: whenever the export can be generated, the estimate handed to the
\* exporter is the number of filtered commits times the constant of the
\* filter's current detail level.
C20_EstimateMatchesFiltered ==
    (filteredCommits # <<>> /\ dateRange # None) =>
        tokenCount = Len(filteredCommits) * getTokensPerCommit(cfDetailLevel[1])

\* C21: whenever the exporter is rendered beside the filter, the detail
\* level and the repository selection it is given are the ones chosen in
\* the Commit Filter.
C21_ExporterUsesFilterState ==
    (filteredCommits # <<>> /\ commits # <<>>) =>
        /\ detailLevel = cfDetailLevel[1]
        /\ selectedRepos = cfSelectedRepos

\* f from position i on can be found, in order, in c from position j on.
RECURSIVE Embeds(_, _, _, _)
Embeds(f, i, c, j) ==
    IF i > Len(f) THEN TRUE
    ELSE IF j > Len(c) THEN FALSE
    ELSE IF f[i] = c[j] THEN Embeds(f, i + 1, c, j + 1)
    ELSE Embeds(f, i, c, j + 1)

\* C23: in every state the filtered commit list is a sub-list of the
\* commit list, so the header's "N (filtered from M)" has N <= M.
C23_FilteredIsSubList ==
    /\ Embeds(filteredCommits, 1, commits, 1)
    /\ Len(filteredCommits) <= Len(commits)

\* What applying the filter to a selection gives.
FilteredBy(repos) == SelectSeq(commits, LAMBDA c : KeepsCommit(c, repos))

C27_ExporterHasDateRange ==
    /\ [](filteredCommits # <<>> => dateRange # None)
    /\ [][dateRange # None => dateRange' # None]_vars

\* C27 witness: the exporter is rendered, and has generated its document
\* from the date range.
C27_Witness ==
    /\ filteredCommits # <<>>
    /\ dateRange # None
    /\ exportedText # None
    /\ exportedText[1].header.dateRange =
           <<format(dateRange[1].from, "yyyy-MM-dd"),
             format(dateRange[1].to, "yyyy-MM-dd")>>

-----------------------------------------------------------------------------
(* The page used for two owners                                            *)

\* The usernames typed.
OwnerUsernames == {"alice", "bob"}

NextOwners ==
    \/ \E u \in OwnerUsernames : SetUsername(u)
    \/ FetchRepositoriesBlocked
    \/ FetchRepositoriesStart
    \/ FetchRepositoriesOk
    \/ FetchRepositoriesFail
    \/ \E i \in 1..2 : SelectRepo(i)
    \/ \E range \in SessionRanges : handleDateSelect(range)
    \/ FetchCommitsStart
    \/ \E n \in {0, 37} : FetchCommitsPage(n)
    \/ FetchCommitsFail

SpecOwners == Init /\ [][NextOwners]_vars

\* The names in a repository list.
RepoNames(repos) == {repos[i].name : i \in 1..Len(repos)}

\* C25: every commit-page request names an owner and a repository that is
\* listed for that owner, and the selected repository is one of the loaded
\* list.
C25_RequestsForListedPairs ==
    /\ \A i \in 1..Len(requests) :
          requests[i].repo \in RepoNames(RemoteRepos(requests[i].owner))
    /\ selectedRepo # "" => selectedRepo \in RepoNames(repositories)

-----------------------------------------------------------------------------
(* AuthButton, and the page's username card under it                       *)

\* The most profile lookups in flight at once.
MaxLookups == 2

\* Index.handleAuthChange(currentUser, currentProfile), called by the
\* effect of AuthButton after a render that changed user or profile.
handleAuthChange(currentUser, currentProfile) ==
    /\ user' = currentUser
    /\ profile' = currentProfile
    /\ username' = InheritedUsername(username, currentProfile)

\* fetchProfile(userId) sends its query.
LookupSent(userId) == auLookups' = Append(auLookups, userId)

\* supabase.auth.getSession() answers: setUser(session?.user ?? null), and
\* fetchProfile if there is a user.
GetSessionResolves ==
    /\ auSession = "pending"
    /\ auSession' = "done"
    /\ auUser' = session
    /\ IF session # None
       THEN Len(auLookups) < MaxLookups /\ LookupSent(session[1])
       ELSE UNCHANGED auLookups
    /\ handleAuthChange(session, auProfile)
    /\ UNCHANGED <<auProfile, session>>
    /\ UNCHANGED <<selectedRepo, dateRange, pickerRange>>
    /\ UNCHANGED <<listVars, resultVars, propVars, extVars, filterVars,
                   exportedText, fmtVars>>

\* The auth service changes or renews its session (sign-in, token refresh,
\* sign-out, here or in another tab) and calls the onAuthStateChange
\* listener with it.
AuthStateChange(s) ==
    /\ s # None \/ session # None
    /\ session' = s
    /\ auUser' = s
    /\ IF s # None
       THEN /\ Len(auLookups) < MaxLookups
            /\ LookupSent(s[1])
            /\ UNCHANGED auProfile
            /\ handleAuthChange(s, auProfile)
       ELSE /\ auProfile' = None
            /\ UNCHANGED auLookups
            /\ handleAuthChange(None, None)
    /\ UNCHANGED auSession
    /\ UNCHANGED <<selectedRepo, dateRange, pickerRange>>
    /\ UNCHANGED <<listVars, resultVars, propVars, extVars, filterVars,
                   exportedText, fmtVars>>

\* The i-th lookup in flight answers.  ok: a row, or no row (PGRST116) and
\* null data: setProfile(data).  Not ok: another error or a throw, logged.
FetchProfileAnswers(i, ok) ==
    /\ i \in 1..Len(auLookups)
    /\ auLookups' = SubSeq(auLookups, 1, i - 1) \o
                        SubSeq(auLookups, i + 1, Len(auLookups))
    /\ auProfile' = IF ok THEN ProfileRow(auLookups[i]) ELSE auProfile
    /\ handleAuthChange(auUser, auProfile')
    /\ UNCHANGED <<auUser, auSession, session>>
    /\ UNCHANGED <<selectedRepo, dateRange, pickerRange>>
    /\ UNCHANGED <<listVars, resultVars, propVars, extVars, filterVars,
                   exportedText, fmtVars>>

\* The usernames typed on the page under AuthButton.
AuthUsernames == {"", "alice", "bob"}

NextAuth ==
    \/ GetSessionResolves
    \/ \E s \in {None} \cup {Some(u) : u \in Users} : AuthStateChange(s)
    \/ \E i \in 1..MaxLookups, ok \in BOOLEAN : FetchProfileAnswers(i, ok)
    \/ \E u \in AuthUsernames : SetUsername(u)
    \/ FetchRepositoriesBlocked
    \/ FetchRepositoriesStart
    \/ FetchRepositoriesOk
    \/ FetchRepositoriesFail

SpecAuth == Init /\ [][NextAuth]_vars

\* The user is signed in and the page's username is the one of the profile.
Inherited ==
    /\ user # None
    /\ HasGithubUsername(profile)
    /\ username = profile[1].github_username[1]

\* C22: a signed-in user whose username came from the profile can list the
\* repositories.  The list is loaded by fetchRepositories alone, which only
\* the Load Repos button calls: so whenever the user is signed in with an
\* inherited username and no list is loaded or loading, a listing can be
\* started.
C22_InheritedUsernameCanList ==
    (Inherited /\ repositories = <<>> /\ ~loadingRepos) =>
        ENABLED FetchRepositoriesStart

\* Signed in with an inherited username that is the user's own, nothing
\* listed, and every lookup in flight is for the signed-in user.
SignedInUnlisted ==
    /\ Inherited
    /\ repositories = <<>> /\ ~loadingRepos
    /\ session = user /\ auUser = user
    /\ auProfile = profile /\ profile = ProfileRow(user[1])
    /\ \A i \in 1..Len(auLookups) : auLookups[i] = user[1]

\* No step that keeps the session leaves SignedInUnlisted, token renewals
\* and lookup answers included: the username card stays hidden.
SignedInStaysUnlisted ==
    [][(SignedInUnlisted /\ session' = session) => SignedInUnlisted']_vars

\* Nowhere in SignedInUnlisted can a listing be started.
SignedInCannotList ==
    SignedInUnlisted => ~UsernameCardShown /\ ~ENABLED FetchRepositoriesStart

\* C24: in AuthButton, and in what it hands to the page, a profile is
\* there only with a user.
C24_ProfileImpliesUser ==
    /\ auProfile # None => auUser # None
    /\ profile # None => user # None

====
